---- MODULE Spec2Model ----
(***************************************************************************)
(* A model of the obsidian-smartsync plugin: the three-way reconciliation  *)
(* of src/src/compare.ts, and the status machine, check, sync, saveState,  *)
(* test, pause and live sync of src/src/operations.ts and src/src/main.ts. *)
(*                                                                         *)
(* JavaScript runs one callback at a time.  An async function runs until   *)
(* it awaits I/O; other callbacks (a command, a timer, an I/O completion)  *)
(* run only then.  Each action below is one such run: from an invocation   *)
(* or an I/O completion to the next await on I/O, nested calls included.   *)
(***************************************************************************)
EXTENDS Integers, FiniteSets, Sequences, TLC

(***************************************************************************)
(* Bounds of the model.                                                    *)
(***************************************************************************)
MaxReg == 2
MaxProt == 16
MaxInvocations == 2
MaxConcurrent == 2
MaxEvents == 1

(***************************************************************************)
(* Paths and digests.  A path is <<directory, n>>; the directory of the    *)
(* vault's configuration files is configDir, and <<configDir, 0>> is the   *)
(* key configDir + "/" of the directory itself.                            *)
(***************************************************************************)
configDir == ".obsidian"
ConfigDirEntry == <<configDir, 0>>
RegPaths == {<<"", i>> : i \in 1..MaxReg}
ProtPaths == {<<configDir, i>> : i \in 1..MaxProt}
EmptyDigest == ""
Digests == {"H1", "H2", "H3"}

\* The limit of dangerCheck.
max == 15

(***************************************************************************)
(* FileList: a function from a finite set of paths to digests.             *)
(***************************************************************************)
EmptyList == [p \in {} |-> EmptyDigest]
Restrict(f, S) == [p \in (DOMAIN f) \cap S |-> f[p]]
Without(f, S) == [p \in (DOMAIN f) \ S |-> f[p]]
\* { ...a, ...b }
Spread(a, b) == [p \in (DOMAIN a) \cup (DOMAIN b) |-> IF p \in DOMAIN b THEN b[p] ELSE a[p]]
\* f[p] is truthy: the key exists and its value is not the empty string
Truthy(f, p) == p \in DOMAIN f /\ f[p] # EmptyDigest
FileLists(S) == UNION {[T -> Digests] : T \in SUBSET S}

One(f, d) == [p \in {f} |-> d]

EmptyTree == [added |-> EmptyList, deleted |-> EmptyList, modified |-> EmptyList, except |-> EmptyList]
Categories == {"added", "deleted", "modified", "except"}

(***************************************************************************)
(* src/src/compare.ts                                                      *)
(***************************************************************************)
\* checkExistKey with the test of line 108 negated: keeps the items of
\* sourceObject that do not exist in referenceObject
checkExistKeyInverted(sourceObject, referenceObject) == Without(sourceObject, DOMAIN referenceObject)

\* Keeps only the items of sourceObject that also exist in referenceObject
checkExistKey(sourceObject, referenceObject) == Restrict(sourceObject, DOMAIN referenceObject)

\* ig.ignores(path) of the matcher built from the settings is "path \in ig"
filterExclusions(fileTree, ig) == Without(fileTree, ig)

\* compareFileTreesExcept, first loop: a path modified on both sides
exceptFirstLoop(remoteFiles, localFiles) ==
    LET bothMod == {f \in DOMAIN remoteFiles.modified : Truthy(localFiles.modified, f)}
    IN  [r |-> [remoteFiles EXCEPT !.except = Spread(@, Restrict(remoteFiles.modified, bothMod)),
                                   !.modified = Without(@, bothMod)],
         l |-> [localFiles EXCEPT !.except = Spread(@, Restrict(localFiles.modified, bothMod)),
                                  !.modified = Without(@, bothMod)]]

\* second loop: a path added on both sides
exceptSecondLoop(t) ==
    LET sameAdd == {f \in DOMAIN t.r.added : f \in DOMAIN t.l.added /\ t.l.added[f] = t.r.added[f]}
        diffAdd == {f \in (DOMAIN t.r.added) \ sameAdd : Truthy(t.l.added, f)}
    IN  [r |-> [t.r EXCEPT !.except = Spread(@, Restrict(t.r.added, diffAdd)),
                           !.added = Without(@, sameAdd \cup diffAdd)],
         l |-> [t.l EXCEPT !.except = Spread(@, Restrict(t.l.added, diffAdd)),
                           !.added = Without(@, sameAdd \cup diffAdd)]]

\* third loop: exceptions that are equal on both sides
exceptThirdLoop(t) ==
    LET same == {f \in DOMAIN t.l.except : f \in DOMAIN t.r.except /\ t.l.except[f] = t.r.except[f]}
    IN  [remoteMatch |-> [t.r EXCEPT !.except = Without(@, same)],
         localMatch |-> [t.l EXCEPT !.except = Without(@, same)]]

\* compareFileTreesExcept without line 17: a path modified on both sides is
\* recorded in except of the remote side only
compareFileTreesExceptRemoteOnly(remoteFiles, localFiles) ==
    LET bothMod == {f \in DOMAIN remoteFiles.modified : Truthy(localFiles.modified, f)}
    IN  [remoteMatch |-> [remoteFiles EXCEPT !.except = Spread(@, Restrict(remoteFiles.modified, bothMod)),
                                             !.modified = Without(@, bothMod)],
         localMatch |-> [localFiles EXCEPT !.modified = Without(@, bothMod)]]

compareFileTreesExcept(remoteFiles, localFiles) ==
    CHOOSE m \in {exceptThirdLoop(t2) :
                     t2 \in {exceptSecondLoop(t1) :
                                t1 \in {exceptFirstLoop(remoteFiles, localFiles)}}} : TRUE

\* comparePreviousFileTree with line 67 storing the digest of the snapshot
\* instead of the current one
comparePreviousFileTreeStale(previousFiles, previousExcept, currentFiles) ==
    LET same == {f \in DOMAIN currentFiles : f \in DOMAIN previousFiles /\ previousFiles[f] = currentFiles[f]}
        added == {f \in (DOMAIN currentFiles) \ same : ~Truthy(previousFiles, f)}
        modified == (DOMAIN currentFiles) \ (same \cup added)
        moved == (DOMAIN previousExcept) \cap modified
    IN  [added |-> Restrict(currentFiles, added),
         deleted |-> Without(previousFiles, DOMAIN currentFiles),
         modified |-> Restrict(previousFiles, modified \ moved),
         except |-> Spread(checkExistKey(previousExcept, currentFiles), Restrict(currentFiles, moved))]

comparePreviousFileTree(previousFiles, previousExcept, currentFiles) ==
    LET same == {f \in DOMAIN currentFiles : f \in DOMAIN previousFiles /\ previousFiles[f] = currentFiles[f]}
        added == {f \in (DOMAIN currentFiles) \ same : ~Truthy(previousFiles, f)}
        modified == (DOMAIN currentFiles) \ (same \cup added)
        \* previous except files that are now found in modified
        moved == (DOMAIN previousExcept) \cap modified
    IN  [added |-> Restrict(currentFiles, added),
         deleted |-> Without(previousFiles, DOMAIN currentFiles),
         modified |-> Restrict(currentFiles, modified \ moved),
         except |-> Spread(checkExistKey(previousExcept, currentFiles), Restrict(currentFiles, moved))]

\* compareFileTrees without the call of compareFileTreesExcept of line 194: with
\* no snapshot both listings are returned as added
compareFileTreesNoMatch(prev, ig, remoteFiles, localFiles) ==
    IF DOMAIN prev.files = {} \/ DOMAIN remoteFiles = {}
    THEN IF DOMAIN remoteFiles = {}
         THEN [remoteFiles |-> EmptyTree, localFiles |-> [EmptyTree EXCEPT !.added = localFiles]]
         ELSE [remoteFiles |-> [EmptyTree EXCEPT !.added = remoteFiles],
               localFiles |-> [EmptyTree EXCEPT !.added = localFiles]]
    ELSE LET filteredPrevTree == filterExclusions(prev.files, ig)
             filteredExcepts == filterExclusions(prev.except, ig)
             remoteFilesBranch == comparePreviousFileTree(filteredPrevTree, filteredExcepts, remoteFiles)
             localFilesBranch == comparePreviousFileTree(filteredPrevTree, filteredExcepts, localFiles)
             m == compareFileTreesExcept(
                    [remoteFilesBranch EXCEPT !.except = Spread(prev.except, @)],
                    [localFilesBranch EXCEPT !.except = Spread(prev.except, @)])
         IN  [remoteFiles |-> [m.remoteMatch EXCEPT !.deleted = checkExistKey(@, localFiles)],
              localFiles |-> [m.localMatch EXCEPT !.deleted = checkExistKey(@, remoteFiles)]]

\* prev is plugin.prevData, ig the set of paths the ignore matcher ignores
compareFileTrees(prev, ig, remoteFiles, localFiles) ==
    IF DOMAIN prev.files = {} \/ DOMAIN remoteFiles = {}
    THEN IF DOMAIN remoteFiles = {}
         THEN [remoteFiles |-> EmptyTree, localFiles |-> [EmptyTree EXCEPT !.added = localFiles]]
         ELSE CHOOSE r \in {[remoteFiles |-> m.remoteMatch, localFiles |-> m.localMatch] :
                              m \in {compareFileTreesExcept([EmptyTree EXCEPT !.added = remoteFiles],
                                                            [EmptyTree EXCEPT !.added = localFiles])}} : TRUE
    ELSE LET filteredPrevTree == filterExclusions(prev.files, ig)
             filteredExcepts == filterExclusions(prev.except, ig)
         IN  CHOOSE r \in
                {[remoteFiles |-> [m.remoteMatch EXCEPT !.deleted = checkExistKey(@, localFiles)],
                  localFiles |-> [m.localMatch EXCEPT !.deleted = checkExistKey(@, remoteFiles)]] :
                    m \in {compareFileTreesExcept(
                              [remoteFilesBranch EXCEPT !.except = Spread(prev.except, @)],
                              [localFilesBranch EXCEPT !.except = Spread(prev.except, @)]) :
                           remoteFilesBranch \in
                              {comparePreviousFileTree(filteredPrevTree, filteredExcepts, remoteFiles)},
                           localFilesBranch \in
                              {comparePreviousFileTree(filteredPrevTree, filteredExcepts, localFiles)}}} : TRUE

\* The two listings after compareFileTrees ran on them: without a snapshot and
\* with a remote listing that is not empty, the two added lists are the listing
\* objects themselves, and compareFileTreesExcept deletes keys from them.
listingsAfterCompare(prev, remoteFiles, localFiles) ==
    IF DOMAIN prev.files = {} /\ DOMAIN remoteFiles # {}
    THEN LET m == compareFileTreesExcept([EmptyTree EXCEPT !.added = remoteFiles],
                                         [EmptyTree EXCEPT !.added = localFiles])
         IN  [remote |-> m.remoteMatch.added, local |-> m.localMatch.added]
    ELSE [remote |-> remoteFiles, local |-> localFiles]

(***************************************************************************)
(* src/src/checksum.ts: the two listings a check compares.  The local      *)
(* store holds the bytes of real files only; the local walk adds the key   *)
(* of the configuration directory with an empty digest.                    *)
(***************************************************************************)
\* ex is the set of paths Checksum.isExcluded excludes
generateLocalHashTree(store, exclude, ex) ==
    LET walked == IF exclude THEN Without(store, ex) ELSE store
    IN  Spread(walked, [p \in {ConfigDirEntry} |-> EmptyDigest])

\* the server lists its files by relative path
generateRemoteHashTree(store) == [p \in DOMAIN store |-> store[p]]

(***************************************************************************)
(* src/src/operations.ts: Controller values of the entry points.  A        *)
(* directive is 1, -1 or 0 (absent).                                       *)
(***************************************************************************)
Side(a, d, m, e) == [added |-> a, deleted |-> d, modified |-> m, except |-> e]
Controllers ==
    [duplicateLocal |-> [local |-> Side(1, 1, 1, 1), remote |-> Side(-1, -1, -1, 0)],
     duplicateRemote |-> [local |-> Side(-1, -1, -1, 0), remote |-> Side(1, 1, 1, 1)],
     push |-> [local |-> Side(1, 1, 1, 1), remote |-> Side(0, 0, 0, 0)],
     pull |-> [local |-> Side(0, 0, 0, 0), remote |-> Side(1, 1, 1, 1)],
     fullSync |-> [local |-> Side(1, 1, 1, 0), remote |-> Side(1, 1, 1, 0)]]
ControllerNames == DOMAIN Controllers

\* Directive with the two transfers of local.deleted exchanged
DirectiveSwapped(side, cat, d) ==
    IF side = "remote"
    THEN CASE cat = "added" -> IF d = 1 THEN "download" ELSE "deleteRemote"
           [] cat = "deleted" -> IF d = 1 THEN "deleteLocal" ELSE "upload"
           [] cat = "modified" -> IF d = 1 THEN "download" ELSE "upload"
           [] cat = "except" -> IF d = 1 THEN "download" ELSE "upload"
    ELSE CASE cat = "added" -> IF d = 1 THEN "upload" ELSE "deleteLocal"
           [] cat = "deleted" -> IF d = 1 THEN "download" ELSE "deleteRemote"
           [] cat = "modified" -> IF d = 1 THEN "upload" ELSE "download"
           [] cat = "except" -> IF d = 1 THEN "upload" ELSE "download"

\* The transfer sync pushes onto operations for a side, category and directive
Directive(side, cat, d) ==
    IF side = "remote"
    THEN CASE cat = "added" -> IF d = 1 THEN "download" ELSE "deleteRemote"
           [] cat = "deleted" -> IF d = 1 THEN "deleteLocal" ELSE "upload"
           [] cat = "modified" -> IF d = 1 THEN "download" ELSE "upload"
           [] cat = "except" -> IF d = 1 THEN "download" ELSE "upload"
    ELSE CASE cat = "added" -> IF d = 1 THEN "upload" ELSE "deleteLocal"
           [] cat = "deleted" -> IF d = 1 THEN "deleteRemote" ELSE "download"
           [] cat = "modified" -> IF d = 1 THEN "upload" ELSE "download"
           [] cat = "except" -> IF d = 1 THEN "upload" ELSE "download"

TreeOf(trees, side) == IF side = "remote" THEN trees.remoteFiles ELSE trees.localFiles
Sources == {"remote", "local"} \X Categories

\* calcTotal over the categories the controller names
SyncTotal(c, trees) ==
    Cardinality({<<src, f>> \in Sources \X (RegPaths \cup ProtPaths \cup {ConfigDirEntry}) :
                    /\ c[src[1]][src[2]] # 0
                    /\ f \in DOMAIN TreeOf(trees, src[1])[src[2]]})

\* SyncOperations without the block of the local operations (lines 518-544)
SyncOperationsRemote(c, trees) ==
    {[src |-> src, kind |-> Directive(src[1], src[2], c[src[1]][src[2]]),
      todo |-> DOMAIN TreeOf(trees, src[1])[src[2]], failed |-> {}, round |-> 1] :
        src \in {s \in Sources : s[1] = "remote" /\ c[s[1]][s[2]] # 0 /\ DOMAIN TreeOf(trees, s[1])[s[2]] # {}}}

\* One entry per operation pushed onto operations whose FileList is not empty
\* (downloadFiles, uploadFiles, deleteFilesRemote and deleteFilesLocal return
\* at once on an empty FileList).
SyncOperations(c, trees) ==
    {[src |-> src, kind |-> Directive(src[1], src[2], c[src[1]][src[2]]),
      todo |-> DOMAIN TreeOf(trees, src[1])[src[2]], failed |-> {}, round |-> 1] :
        src \in {s \in Sources : c[s[1]][s[2]] # 0 /\ DOMAIN TreeOf(trees, s[1])[s[2]] # {}}}

\* dangerCheck: the ChangeSets without localFiles.deleted[".obsidian/"], the
\* number of keys of localFiles.deleted that start with ".obsidian", and the result
StartsWithConfigDir(p) == p[1] = configDir
dangerCount(trees) ==
    Cardinality({v \in (DOMAIN trees.localFiles.deleted) \ {ConfigDirEntry} : StartsWithConfigDir(v)})
dangerTrees(trees) == [trees EXCEPT !.localFiles.deleted = Without(@, {ConfigDirEntry})]
\* dangerCheck with >= for >
dangerCheckAtLeast(trees) == ~(dangerCount(trees) >= max)
dangerCheck(trees) == ~(dangerCount(trees) > max)

(***************************************************************************)
(* State.                                                                  *)
(***************************************************************************)
VARIABLES
    status,         \* plugin.status
    prevData,       \* plugin.prevData: [error, files, except]
    fileTrees,      \* plugin.fileTrees; defined = FALSE while it is undefined
    allFiles,       \* plugin.allFiles: the listings [remote, local] of the last check
    pause,          \* plugin.pause
    selectedFiles,  \* plugin.selectedFiles
    ignored,        \* the paths the ignore matcher of Compare ignores (settings)
    excluded,       \* the paths Checksum.isExcluded excludes (settings)
    localStore,     \* the files of the vault: path -> digest of the content
    remoteStore,    \* the files of the server: path -> digest of the content
    checksumFiles,  \* Checksum.remoteFiles: the FileList the local walks fill
    proc,           \* the invocations: call stack, locals, and what each did
    budget,         \* what the environment may still do: events (failed network calls
                    \* and commands of the user interface), the invocations in flight
                    \* at once (conc), the controllers of sync (ctls), timer and live sync
    lastCheck,      \* history: how the last completed check pass ended
    lastSync,       \* history: the last completed sync and the check that followed
    lastTest        \* history: the last test that got its answer, and how it ended

vars == <<status, prevData, fileTrees, allFiles, pause, selectedFiles, ignored, excluded, checksumFiles,
          localStore, remoteStore, proc, budget, lastCheck, lastSync, lastTest>>

Procs == 1..MaxInvocations
Undefined == "undefined"
NoTrees == [defined |-> FALSE, remoteFiles |-> EmptyTree, localFiles |-> EmptyTree]
Defined(trees) == [defined |-> TRUE, remoteFiles |-> trees.remoteFiles, localFiles |-> trees.localFiles]

\* No call of the invocation has just returned
NoRet == [pending |-> FALSE, value |-> FALSE, thrown |-> FALSE]

\* An invocation that has not been made yet
NoSave == [ran |-> FALSE, writeOk |-> FALSE, listing |-> EmptyList, localExcept |-> EmptyList,
           files |-> EmptyList, except |-> EmptyList, error |-> FALSE, status |-> "NONE"]
NoCached == [trees |-> NoTrees, files |-> EmptyList, except |-> EmptyList]
NewProc ==
    [op |-> "none", stk |-> <<>>, ctl |-> "fullSync", tasks |-> {}, file |-> ConfigDirEntry,
     hash |-> EmptyDigest, ret |-> NoRet,
     \* history of the invocation
     returned |-> FALSE, overlap |-> FALSE, statusAtCall |-> "NONE", errHeld |-> FALSE,
     quiet |-> TRUE, did |-> {}, trees |-> NoTrees, tripped |-> FALSE, attempted |-> {}, failed |-> {},
     endStatus |-> "NONE", pauseHeld |-> FALSE, dispatched |-> {}, clean |-> TRUE,
     \* the attempts of the transfers: <<source, path, round, success>>; an attempt
     \* made twice in one round (again); a retry made while a first attempt of its
     \* batch had not settled (early)
     rounds |-> {}, again |-> FALSE, early |-> FALSE,
     \* the statuses deleteFile returned: <<source, path, round, status>>
     replies |-> {},
     \* a walk of generateLocalHashTree taken step by step: its argument, the
     \* files whose read it awaits, and the FileList it returned
     exclude |-> FALSE, toRead |-> {}, walked |-> EmptyList,
     \* the cached ChangeSets and the snapshot when the running check started
     pre |-> NoCached,
     \* the saveState that ran its try block: the local FileList it built, the
     \* conflicts of the local side, and the snapshot, flag and status it ended with
     saved |-> NoSave]

NoCheck == [n |-> -1, deleted |-> {}, status |-> "NONE", error |-> FALSE, errorBefore |-> FALSE,
            cleared |-> FALSE,
            \* the last check that failed: at its test or at the fetch of the remote checksums
            \* or at the danger guard; the cached state before and after it
            fail |-> "none", failStatus |-> "NONE", failError |-> FALSE, failErrorBefore |-> FALSE,
            failPre |-> NoCached, failPost |-> NoCached]
NoSync == [done |-> FALSE, quiet |-> TRUE, failed |-> {}, before |-> NoTrees, after |-> NoTrees,
           \* the last sync whose transfers all settled: its controller, whether every
           \* attempt succeeded (clean), and the files of the two stores at that moment
           settled |-> FALSE, ctl |-> "fullSync", clean |-> TRUE,
           remote |-> EmptyList, local |-> EmptyList]
NoTest == [done |-> FALSE, online |-> FALSE, status |-> "NONE", error |-> FALSE, errorBefore |-> FALSE]

InFlight(q) == proc[q].op # "none" /\ ~proc[q].returned
TopLevelOps == {"check", "sync", "save"}

(***************************************************************************)
(* The machine an invocation runs on: the plugin's fields, the stores and  *)
(* the invocation's own record me.  Every operator below is a piece of     *)
(* code that runs without awaiting I/O and maps a machine to a machine.    *)
(***************************************************************************)
Mach(p) ==
    [status |-> status, prevData |-> prevData, fileTrees |-> fileTrees, allFiles |-> allFiles,
     localStore |-> localStore, remoteStore |-> remoteStore,
     lastCheck |-> lastCheck, lastSync |-> lastSync, lastTest |-> lastTest, me |-> proc[p]]

Frame(fn, at) == [fn |-> fn, at |-> at]
Top(m) == m.me.stk[Len(m.me.stk)]
Pop(m) == [m EXCEPT !.me.stk = SubSeq(@, 1, Len(@) - 1)]
Push(m, f) == [m EXCEPT !.me.stk = Append(@, f)]
At(m, at) == [m EXCEPT !.me.stk = [@ EXCEPT ![Len(@)].at = at]]
Did(m, what) == [m EXCEPT !.me.did = @ \cup {what}]

\* main.ts setStatus
setStatus(m, st) == Did([m EXCEPT !.status = st], "status")

\* main.ts setError: the flag, Status.ERROR when it is set, and the write of prevData
setError(m, error) ==
    LET m1 == [m EXCEPT !.prevData.error = error]
    IN  IF error THEN setStatus(m1, "ERROR") ELSE m1

\* The running function returns value (or throws, when thrown); its caller, the
\* function of the top frame, continues in Resume
Return(m, value, thrown) ==
    [m EXCEPT !.me.ret = [pending |-> TRUE, value |-> value, thrown |-> thrown]]

\* operations.ts test, up to its await of getStatus
testStart(m) == Push(setStatus(m, "TEST"), Frame("test", "getStatus"))

\* history: the answer a test got, the status and the error flag it ends with
recordTest(m, online, errorBefore) ==
    [m EXCEPT !.lastTest = [done |-> TRUE, online |-> online, status |-> m.status,
                            error |-> m.prevData.error, errorBefore |-> errorBefore]]

\* testResume without the second setStatus of the success path
testResumeNoError(m, online) ==
    IF online
    THEN Return(Pop(recordTest(setStatus(m, "NONE"), TRUE, m.prevData.error)), TRUE, FALSE)
    ELSE Return(Pop(recordTest(setStatus(m, "OFFLINE"), FALSE, m.prevData.error)), FALSE, FALSE)

\* test, after getStatus answered; getStatus catches the error of its request
\* and answers online: false, so the catch of test is not reached
testResume(m, online) ==
    IF online
    THEN LET m1 == setStatus(m, "NONE")
             m2 == IF m1.prevData.error THEN setStatus(m1, "ERROR") ELSE m1
         IN  Return(Pop(recordTest(m2, TRUE, m.prevData.error)), TRUE, FALSE)
    ELSE Return(Pop(recordTest(setStatus(m, "OFFLINE"), FALSE, m.prevData.error)), FALSE, FALSE)

\* history: the cached ChangeSets and the two lists of the snapshot
Cached(m) == [trees |-> m.fileTrees, files |-> m.prevData.files, except |-> m.prevData.except]

\* checkStart with an await between the guard and setStatus(Status.CHECK): the
\* invocation is past the guard and Status is not set yet
checkStartLate(m) ==
    IF m.status # "NONE" /\ m.status # "OFFLINE"
    THEN Return(m, FALSE, FALSE)
    ELSE testStart(Push([m EXCEPT !.me.pre = Cached(m)], Frame("check", "test")))

\* operations.ts check, up to the await of getStatus in test: the guard and
\* setStatus(Status.CHECK), which assigns this.status before it returns, run
\* without an await between them
checkStart(m) ==
    IF m.status # "NONE" /\ m.status # "OFFLINE"
    THEN Return(m, FALSE, FALSE)
    ELSE testStart(Push(Did(setStatus([m EXCEPT !.me.pre = Cached(m)], "CHECK"), "checking"),
                        Frame("check", "test")))

\* history: a check failed (fail says where), with the status and the error
\* flag it ends with
recordFail(m, fail, errorBefore) ==
    [m EXCEPT !.lastCheck.fail = fail, !.lastCheck.failStatus = m.status,
              !.lastCheck.failError = m.prevData.error, !.lastCheck.failErrorBefore = errorBefore,
              !.lastCheck.failPre = m.me.pre, !.lastCheck.failPost = Cached(m)]

\* check, after test returned: both hash tree walks start
checkAfterTest(m, response) ==
    IF ~response THEN Return(Pop(recordFail(m, "test", m.prevData.error)), FALSE, FALSE)
    ELSE Did(At(m, "scan"), "scan")

\* check, from dangerCheck to its return: errorWrite and Status.ERROR when the
\* guard trips, Status.NONE when it does not
checkEnd(m, ok) ==
    IF ok THEN setStatus(m, "NONE") ELSE setStatus(setError(m, TRUE), "ERROR")

\* history: the count of dangerCheck, the paths of localFiles.deleted and how
\* the check pass ended
recordCheck(m, n, deleted, errorBefore) ==
    [m EXCEPT !.lastCheck = [NoCheck EXCEPT !.n = n, !.deleted = deleted, !.status = m.status,
                                            !.error = m.prevData.error,
                                            !.errorBefore = errorBefore,
                                            !.fail = IF n > max THEN "danger" ELSE "none",
                                            !.failPre = m.me.pre, !.failPost = Cached(m)]]

\* check, from the result of compareFileTrees on
checkCompared(m, compared, listings) ==
    CHOOSE r \in {recordCheck(ended, dangerCount(compared), DOMAIN compared.localFiles.deleted,
                              m.prevData.error) :
                     ended \in {checkEnd(Did([m EXCEPT !.allFiles = listings,
                                                      !.fileTrees = Defined(dangerTrees(compared))],
                                             "trees"),
                                         dangerCheck(compared))}} : TRUE

\* check, from the two listings on
checkListed(m, remoteFiles, localFiles) ==
    CHOOSE r \in {checkCompared(m, compared, listingsAfterCompare(m.prevData, remoteFiles, localFiles)) :
                     compared \in {compareFileTrees(m.prevData, ignored, remoteFiles, localFiles)}} : TRUE

\* check, after Promise.all of the two hash trees settled
checkScanDone(m, remoteOk) ==
    IF ~remoteOk
    THEN \* generateRemoteHashTree threw; response is true here
         Return(Pop(recordFail(setStatus(setError(m, TRUE), "ERROR"), "fetch", m.prevData.error)),
                FALSE, TRUE)
    ELSE Return(Pop(checkListed(m, generateRemoteHashTree(m.remoteStore),
                                generateLocalHashTree(m.localStore, TRUE, excluded))),
                TRUE, FALSE)

\* main.ts saveState, up to its await of generateLocalHashTree
saveStart(m) ==
    IF m.prevData.error
    THEN Return(m, FALSE, FALSE)
    ELSE IF m.status = "NONE"
         THEN Did(Push(setStatus(m, "SAVE"), Frame("save", "scan")), "scan")
         ELSE Return(m, FALSE, FALSE)

\* saveState, after the local walk: Object.keys(this.selectedFiles) throws a
\* TypeError while selectedFiles is undefined; the catch sets the error flag,
\* the finally sets Status.NONE
\* history: what a saveState that reached its try block ended with
recordSave(m, writeOk, files, localExcept) ==
    [m EXCEPT !.me.saved = [ran |-> TRUE, writeOk |-> writeOk, listing |-> files,
                            localExcept |-> localExcept,
                            files |-> m.prevData.files, except |-> m.prevData.except,
                            error |-> m.prevData.error, status |-> m.status]]

saveScanDone(m, writeOk) ==
    LET files == generateLocalHashTree(m.localStore, FALSE, excluded)
    IN  IF selectedFiles = Undefined
        THEN Return(Pop(recordSave(setStatus(setError(m, TRUE), "NONE"), writeOk, files,
                                   m.fileTrees.localFiles.except)), FALSE, FALSE)
        ELSE LET unselected == {f \in DOMAIN selectedFiles : ~selectedFiles[f]}
                 kept == Restrict(m.prevData.files, unselected)
                 files2 == Spread(Without(files, unselected), kept)
                 newExcept == checkExistKey(m.fileTrees.localFiles.except, files2)
                 m1 == Did([m EXCEPT !.prevData = [error |-> m.prevData.error, files |-> files2,
                                                   except |-> newExcept]], "snapshot")
                 m2 == IF writeOk THEN m1 ELSE setError(m1, TRUE)
             IN  Return(Pop(recordSave(setStatus(m2, "NONE"), writeOk, files2,
                                       m.fileTrees.localFiles.except)), FALSE, FALSE)

\* operations.ts sync, after the test and the optional check: Status.SYNC, the
\* total, and the operations started
syncDispatch(m) ==
    LET m1 == Did(setStatus(m, "SYNC"), "syncing")
        c == Controllers[m.me.ctl]
    IN  IF SyncTotal(c, m1.fileTrees) = 0
        THEN Return(Pop(setStatus(m1, "NONE")), FALSE, FALSE)
        ELSE Did([At(m1, "transfer") EXCEPT !.me.tasks = SyncOperations(c, m1.fileTrees),
                                            !.me.dispatched = {<<b.src, b.kind, b.todo>> :
                                                                  b \in SyncOperations(c, m1.fileTrees)},
                                            !.me.trees = m1.fileTrees,
                                            !.me.tripped = m1.lastCheck.n > max /\ ~m1.lastCheck.cleared],
                 "transfer")

\* sync without the test of the error flag
syncStartUnguarded(m, ctl) ==
    testStart(Push([m EXCEPT !.me.ctl = ctl], Frame("sync", "test")))
\* sync, up to the await of getStatus in test
syncStart(m, ctl) ==
    IF m.prevData.error
    THEN Return(m, FALSE, FALSE)
    ELSE testStart(Push([m EXCEPT !.me.ctl = ctl], Frame("sync", "test")))

syncAfterTest(m, ok) ==
    IF ~ok THEN Return(Pop(m), FALSE, FALSE)
    ELSE IF m.status # "NONE" THEN Return(Pop(m), FALSE, FALSE)
    ELSE IF ~m.fileTrees.defined THEN checkStart(At(m, "precheck"))
    ELSE syncDispatch(m)

\* sync's catch: setError(true), Status.ERROR
syncCatch(m) == Return(Pop(setStatus(setError(m, TRUE), "ERROR")), FALSE, FALSE)

syncAfterPreCheck(m, response, thrown) ==
    IF thrown THEN syncCatch(m)
    ELSE IF ~response THEN Return(Pop(m), FALSE, FALSE)
    ELSE syncDispatch(m)

\* history: every operation of the sync settled
recordTransfers(m) ==
    [m EXCEPT !.lastSync = [NoSync EXCEPT !.settled = TRUE, !.ctl = m.me.ctl, !.clean = m.me.clean,
                                          !.before = m.me.trees,
                                          !.remote = m.remoteStore, !.local = m.localStore]]

\* sync, after Promise.all(operations): Status.NONE, then saveState
syncAfterTransfers(m) == saveStart(At(setStatus(recordTransfers(m), "NONE"), "save"))

\* sync, after saveState returned: check(true)
\* history: postcheck, when the guard of that check admits it
syncAfterSave(m) ==
    checkStart(At(IF m.status = "NONE" \/ m.status = "OFFLINE" THEN Did(m, "postcheck") ELSE m,
                  "postcheck"))

\* sync, after the second check: Status.NONE
syncAfterPostCheck(m, response, thrown) ==
    IF thrown THEN syncCatch(m)
    ELSE LET m1 == setStatus(m, "NONE")
             m2 == [m1 EXCEPT !.lastSync = [@ EXCEPT !.done = response, !.quiet = m.me.quiet,
                                                     !.failed = m.me.failed,
                                                     !.after = m1.fileTrees]]
         IN  Return(Pop(m2), FALSE, FALSE)

\* main.ts setAutoSync: the interval callback
autoGo(m) ==
    IF m.status # "NONE" THEN Return(Pop(m), FALSE, FALSE) ELSE checkStart(At(m, "check"))

autoStart(m) ==
    IF m.status = "OFFLINE"
    THEN testStart(Push(m, Frame("auto", "test")))
    ELSE autoGo(Push(m, Frame("auto", "check")))

autoAfterTest(m, response) ==
    IF ~response THEN Return(Pop(m), FALSE, FALSE) ELSE autoGo(setStatus(m, "NONE"))

autoAfterCheck(m, response, thrown) ==
    IF thrown \/ ~response THEN Return(Pop(m), FALSE, thrown)
    ELSE syncStart(At(m, "sync"), "fullSync")

\* main.ts liveSyncCallback; isSyncing is never set
liveStart(m, file) ==
    IF m.status = "NONE" \/ m.status = "OFFLINE"
    THEN Push([setStatus(m, "AUTO") EXCEPT !.me.file = file], Frame("live", "read"))
    ELSE Return(m, FALSE, FALSE)

\* liveSyncCallback, after readBinary and sha256
liveRead(m) ==
    IF m.me.file \notin DOMAIN m.localStore
    THEN Return(Pop(setStatus(m, "ERROR")), FALSE, FALSE)
    ELSE [At(m, "upload") EXCEPT !.me.hash = m.localStore[m.me.file]]

\* liveSyncCallback, after uploadFile answered
liveUpload(m, response) ==
    IF ~response
    THEN Return(Pop(setStatus(m, "OFFLINE")), FALSE, FALSE)
    ELSE LET f == m.me.file
             m1 == [m EXCEPT !.remoteStore = Spread(@, [p \in {f} |-> m.me.hash]),
                             !.prevData.files = Spread(@, [p \in {f} |-> m.me.hash])]
         IN  Return(Pop(setStatus(Did(m1, "snapshot"), "NONE")), FALSE, FALSE)

\* A call returned: the caller runs on from its await
Resume(m) ==
    LET value == m.me.ret.value
        thrown == m.me.ret.thrown
        m0 == [m EXCEPT !.me.ret = NoRet]
    IN  IF m.me.stk = <<>> THEN m0
        ELSE LET f == Top(m)
             IN  CASE f.fn = "check" /\ f.at = "test" -> checkAfterTest(m0, value)
                   [] f.fn = "sync" /\ f.at = "test" -> syncAfterTest(m0, value)
                   [] f.fn = "sync" /\ f.at = "precheck" -> syncAfterPreCheck(m0, value, thrown)
                   [] f.fn = "sync" /\ f.at = "save" -> syncAfterSave(m0)
                   [] f.fn = "sync" /\ f.at = "postcheck" -> syncAfterPostCheck(m0, value, thrown)
                   [] f.fn = "auto" /\ f.at = "test" -> autoAfterTest(m0, value)
                   [] f.fn = "auto" /\ f.at = "check" -> autoAfterCheck(m0, value, thrown)
                   [] f.fn = "auto" /\ f.at = "sync" -> Return(Pop(m0), FALSE, FALSE)

RECURSIVE Settle(_)

\* Settle without the continuations: the promise a caller awaits is never
\* resolved
SettleNever(m) == m

\* The callback runs until every function on its stack awaits I/O or returned
Settle(m) ==
    CHOOSE r \in {IF x.me.ret.pending THEN Settle(Resume(x)) ELSE x : x \in {m}} : TRUE

(***************************************************************************)
(* Transfers.  Each operation sync starts is one entry of me.tasks: the    *)
(* paths of its FileList still to attempt (todo), the first attempts that  *)
(* failed (failed) and the round.  uploadFiles and deleteFilesLocal take   *)
(* one path after the other; downloadFiles and deleteFilesRemote attempt   *)
(* every path and then retry the failed ones once.  The attempts of one    *)
(* operation touch different paths; they are taken in the order of Rank.   *)
(* Attempts of different operations interleave freely.                     *)
(***************************************************************************)
Rank(p) == IF p[1] = configDir THEN p[2] ELSE MaxProt + p[2]
MinPath(S) == CHOOSE f \in S : \A g \in S : Rank(f) <= Rank(g)
EndsWithSlash(p) == p = ConfigDirEntry
Retried(kind) == kind \in {"download", "deleteRemote"}

\* The status smartSyncClient.deleteFile returns: the status of the response, or
\* error.status || 666 of a request that threw
DeleteReplies == {200, 201, 204, 404, 500, 666}

\* operations.ts deleteFile and retryDelete: the responses that count as deleted
deleteAccepted(response) == response = 200 \/ response = 204 \/ response = 404

\* The store after it answered a DELETE of f with response
afterDelete(store, f, response) ==
    IF response \in {200, 201, 204} THEN Without(store, {f}) ELSE store

\* downloadFile that writes what the response carries before it looks at the
\* status of the response
downloadFileWriteFirst(m, f, fault) ==
    IF EndsWithSlash(f) THEN [m |-> m, ok |-> TRUE]
    ELSE IF f \notin DOMAIN m.remoteStore THEN [m |-> m, ok |-> FALSE]
    ELSE [m |-> [m EXCEPT !.localStore = Spread(@, [p \in {f} |-> m.remoteStore[f]])],
          ok |-> ~fault]
\* downloadFile: a folder is ensured locally; a file is written only when the
\* server is online, getFile did not throw and answered 200.  fault: the
\* server is offline or getFile throws in both tries of downloadWithRetry; a
\* file the server does not hold is answered with an error status.
downloadFile(m, f, fault) ==
    IF EndsWithSlash(f) THEN [m |-> m, ok |-> TRUE]
    ELSE IF fault \/ f \notin DOMAIN m.remoteStore THEN [m |-> m, ok |-> FALSE]
    ELSE [m |-> [m EXCEPT !.localStore = Spread(@, [p \in {f} |-> m.remoteStore[f]])],
          ok |-> TRUE]

\* One attempt on path f: downloadFile, uploadFile, deleteFile / retryDelete,
\* deleteLocalFile.  fault: the network call of the attempt fails; reply: the
\* status deleteFile returns.
Attempt(m, kind, f, fault, reply) ==
    CASE kind = "download" -> downloadFile(m, f, fault)
      [] kind = "upload" ->
            IF EndsWithSlash(f) THEN [m |-> m, ok |-> ~fault]
            ELSE IF fault \/ f \notin DOMAIN m.localStore THEN [m |-> m, ok |-> FALSE]
            ELSE [m |-> [m EXCEPT !.remoteStore = Spread(@, [p \in {f} |-> m.localStore[f]])],
                  ok |-> TRUE]
      [] kind = "deleteRemote" ->
            [m |-> [m EXCEPT !.remoteStore = afterDelete(@, f, reply)], ok |-> deleteAccepted(reply)]
      [] kind = "deleteLocal" ->
            IF EndsWithSlash(f)
            THEN [m |-> [m EXCEPT !.localStore = Without(@, ProtPaths)], ok |-> TRUE]
            ELSE IF f \notin DOMAIN m.localStore THEN [m |-> m, ok |-> FALSE]
            ELSE [m |-> [m EXCEPT !.localStore = Without(@, {f})], ok |-> TRUE]

\* The paths of the batch of b whose first attempt has not settled
FirstPending(me, b) ==
    {g \in UNION {d[3] : d \in {e \in me.dispatched : e[1] = b.src}} :
        \A ok \in BOOLEAN : <<b.src, g, 1, ok>> \notin me.rounds}

\* The history of the attempt of round b.round on path f of batch b
recordAttempt(m, b, f, ok, reply) ==
    [m EXCEPT !.me.replies = IF b.kind = "deleteRemote" THEN @ \cup {<<b.src, f, b.round, reply>>} ELSE @,
              !.me.attempted = @ \cup {<<b.kind, f>>},
              !.me.clean = @ /\ ok,
              !.me.again = @ \/ \E o \in BOOLEAN : <<b.src, f, b.round, o>> \in m.me.rounds,
              !.me.early = @ \/ (b.round = 2 /\ FirstPending(m.me, b) # {}),
              !.me.rounds = @ \cup {<<b.src, f, b.round, ok>>}]

\* transferStep without the end of the retries: the paths that failed are
\* tried again as long as one of them fails
transferStepForever(m, b, fault, reply) ==
    LET f == MinPath(b.todo)
        r == Attempt(m, b.kind, f, fault, reply)
        todo == b.todo \ {f}
        failed == IF r.ok THEN b.failed ELSE b.failed \cup {f}
        terminal == ~r.ok /\ (~Retried(b.kind) \/ b.round = 2)
        rest == m.me.tasks \ {b}
        tasks == IF todo # {} THEN rest \cup {[b EXCEPT !.todo = todo, !.failed = failed]}
                 ELSE IF Retried(b.kind) /\ failed # {}
                      THEN rest \cup {[b EXCEPT !.todo = failed, !.failed = {}, !.round = 2]}
                      ELSE rest
        m1 == [recordAttempt(r.m, b, f, r.ok, reply) EXCEPT
                          !.me.tasks = tasks,
                          !.me.failed = IF terminal THEN @ \cup {<<b.src[1], b.src[2], f>>} ELSE @]
    IN  IF tasks = {} THEN syncAfterTransfers(m1) ELSE m1

\* The attempt on the next path of operation b settles.  The attempts of one
\* batch settle in the order of Rank; those of different batches interleave.
transferStep(m, b, fault, reply) ==
    LET f == MinPath(b.todo)
        r == Attempt(m, b.kind, f, fault, reply)
        todo == b.todo \ {f}
        failed == IF r.ok THEN b.failed ELSE b.failed \cup {f}
        terminal == ~r.ok /\ (~Retried(b.kind) \/ b.round = 2)
        rest == m.me.tasks \ {b}
        tasks == IF todo # {} THEN rest \cup {[b EXCEPT !.todo = todo, !.failed = failed]}
                 ELSE IF Retried(b.kind) /\ b.round = 1 /\ failed # {}
                      THEN rest \cup {[b EXCEPT !.todo = failed, !.failed = {}, !.round = 2]}
                      ELSE rest
        m1 == [recordAttempt(r.m, b, f, r.ok, reply) EXCEPT
                          !.me.tasks = tasks,
                          !.me.failed = IF terminal THEN @ \cup {<<b.src[1], b.src[2], f>>} ELSE @]
    IN  IF tasks = {} THEN syncAfterTransfers(m1) ELSE m1

(***************************************************************************)
(* Actions.                                                                *)
(***************************************************************************)
\* The record an invocation ends with: its history only, and the status st it
\* returned with
Finish(me, st) ==
    IF me.stk # <<>> THEN me
    ELSE [NewProc EXCEPT !.op = me.op, !.returned = TRUE, !.overlap = me.overlap,
                         !.statusAtCall = me.statusAtCall, !.errHeld = me.errHeld,
                         !.did = me.did, !.endStatus = st, !.pauseHeld = me.pauseHeld,
                         !.saved = me.saved]

Commit(p, run, others) ==
    \E m \in {Settle(run)} :
        /\ status' = m.status
        /\ prevData' = m.prevData
        /\ fileTrees' = m.fileTrees
        /\ allFiles' = m.allFiles
        /\ localStore' = m.localStore
        /\ remoteStore' = m.remoteStore
        /\ lastCheck' = m.lastCheck
        /\ lastSync' = m.lastSync
        /\ lastTest' = m.lastTest
        /\ proc' = [q \in Procs |-> IF q = p THEN Finish(m.me, m.status) ELSE others[q]]

Disturbed == [q \in Procs |-> [proc[q] EXCEPT !.quiet = FALSE]]

\* A new invocation takes the first unused record
CanInvoke(p) ==
    /\ proc[p].op = "none"
    /\ \A q \in Procs : q < p => proc[q].op # "none"
    /\ Cardinality({q \in Procs : InFlight(q)}) < budget.conc

Invoked(p, op) ==
    [Mach(p) EXCEPT !.me = [NewProc EXCEPT
        !.op = op,
        !.overlap = \E q \in Procs : InFlight(q) /\ proc[q].op \in TopLevelOps,
        !.statusAtCall = status,
        !.errHeld = prevData.error,
        !.pauseHeld = pause,
        !.quiet = ~\E q \in Procs : InFlight(q)]]

\* The walks of check and saveState are taken whole in these actions (their steps
\* are WalkStart to WalkReturn below), so Checksum.remoteFiles is left as it is
Settings == UNCHANGED <<pause, selectedFiles, ignored, excluded, checksumFiles>>

UseFault(fault) ==
    /\ fault => budget.events > 0
    /\ budget' = IF fault THEN [budget EXCEPT !.events = @ - 1] ELSE budget

UserTest(p) ==
    /\ CanInvoke(p)
    /\ Commit(p, testStart(Invoked(p, "test")), Disturbed)
    /\ UNCHANGED budget /\ Settings

UserCheck(p) ==
    /\ CanInvoke(p)
    /\ Commit(p, checkStart(Invoked(p, "check")), Disturbed)
    /\ UNCHANGED budget /\ Settings

UserSync(p) ==
    /\ CanInvoke(p)
    /\ \E ctl \in budget.ctls : Commit(p, syncStart(Invoked(p, "sync"), ctl), Disturbed)
    /\ UNCHANGED budget /\ Settings

UserSaveState(p) ==
    /\ CanInvoke(p)
    /\ Commit(p, saveStart(Invoked(p, "save")), Disturbed)
    /\ UNCHANGED budget /\ Settings

AutoSyncTick(p) ==
    /\ CanInvoke(p)
    /\ budget.auto
    /\ Commit(p, autoStart(Invoked(p, "auto")), Disturbed)
    /\ UNCHANGED budget /\ Settings

LiveSync(p) ==
    /\ CanInvoke(p)
    /\ budget.live
    /\ \E f \in (DOMAIN localStore) \cap RegPaths :
          Commit(p, liveStart(Invoked(p, "live"), f), Disturbed)
    /\ UNCHANGED budget /\ Settings

Suspended(p, fn, at) ==
    /\ InFlight(p)
    /\ proc[p].stk[Len(proc[p].stk)] = Frame(fn, at)

GetStatusReturns(p) ==
    /\ Suspended(p, "test", "getStatus")
    /\ \E online \in BOOLEAN :
          /\ UseFault(~online)
          /\ Commit(p, testResume(Mach(p), online), proc)
    /\ Settings

ScanCompletes(p) ==
    /\ Suspended(p, "check", "scan")
    /\ \E remoteOk \in BOOLEAN :
          /\ UseFault(~remoteOk)
          /\ Commit(p, checkScanDone(Mach(p), remoteOk), proc)
    /\ Settings

SaveScanCompletes(p) ==
    /\ Suspended(p, "save", "scan")
    /\ Commit(p, saveScanDone(Mach(p), TRUE), proc)
    /\ UNCHANGED budget /\ Settings

TransferSettles(p) ==
    /\ Suspended(p, "sync", "transfer")
    /\ \E b \in proc[p].tasks, fault \in BOOLEAN, reply \in DeleteReplies :
          /\ fault => b.kind # "deleteLocal" /\ ~(b.kind = "download" /\ EndsWithSlash(MinPath(b.todo)))
          /\ IF b.kind = "deleteRemote"
             THEN /\ fault <=> reply \in {500, 666}
                  /\ reply = 404 <=> (~fault /\ MinPath(b.todo) \notin DOMAIN remoteStore)
             ELSE reply = 200
          /\ UseFault(fault \/ reply \in {201, 204})
          /\ Commit(p, transferStep(Mach(p), b, fault, reply), proc)
    /\ Settings

LiveReadReturns(p) ==
    /\ Suspended(p, "live", "read")
    /\ Commit(p, liveRead(Mach(p)), proc)
    /\ UNCHANGED budget /\ Settings

LiveUploadReturns(p) ==
    /\ Suspended(p, "live", "upload")
    /\ \E response \in BOOLEAN :
          /\ UseFault(~response)
          /\ Commit(p, liveUpload(Mach(p), response), proc)
    /\ Settings

\* main.ts togglePause
TogglePause ==
    /\ budget.events > 0
    /\ pause' = ~pause
    /\ status' = IF pause' THEN "PAUSE" ELSE "NONE"
    /\ budget' = [budget EXCEPT !.events = @ - 1]
    /\ proc' = [q \in Procs |-> [proc[q] EXCEPT !.quiet = FALSE, !.pauseHeld = @ /\ pause']]
    /\ UNCHANGED <<prevData, fileTrees, allFiles, selectedFiles, ignored, excluded, localStore,
                   remoteStore, checksumFiles, lastCheck, lastSync, lastTest>>

\* modal.ts clearErrors
ClearErrors ==
    /\ budget.events > 0
    /\ prevData' = [prevData EXCEPT !.error = FALSE]
    /\ status' = "NONE"
    /\ budget' = [budget EXCEPT !.events = @ - 1]
    /\ proc' = [q \in Procs |-> [proc[q] EXCEPT !.quiet = FALSE, !.errHeld = FALSE]]
    /\ lastCheck' = [lastCheck EXCEPT !.cleared = TRUE]
    /\ UNCHANGED <<fileTrees, allFiles, pause, selectedFiles, ignored, excluded, localStore,
                   remoteStore, checksumFiles, lastSync, lastTest>>

\* setup.ts command reset-error: setError(false)
ResetError ==
    /\ budget.events > 0
    /\ prevData' = [prevData EXCEPT !.error = FALSE]
    /\ budget' = [budget EXCEPT !.events = @ - 1]
    /\ proc' = [q \in Procs |-> [proc[q] EXCEPT !.quiet = FALSE, !.errHeld = FALSE]]
    /\ lastCheck' = [lastCheck EXCEPT !.cleared = TRUE]
    /\ UNCHANGED <<status, fileTrees, allFiles, pause, selectedFiles, ignored, excluded, localStore,
                   remoteStore, checksumFiles, lastSync, lastTest>>

Next ==
    \/ \E p \in Procs : UserTest(p)
    \/ \E p \in Procs : UserCheck(p)
    \/ \E p \in Procs : UserSync(p)
    \/ \E p \in Procs : UserSaveState(p)
    \/ \E p \in Procs : AutoSyncTick(p)
    \/ \E p \in Procs : LiveSync(p)
    \/ \E p \in Procs : GetStatusReturns(p)
    \/ \E p \in Procs : ScanCompletes(p)
    \/ \E p \in Procs : SaveScanCompletes(p)
    \/ \E p \in Procs : TransferSettles(p)
    \/ \E p \in Procs : LiveReadReturns(p)
    \/ \E p \in Procs : LiveUploadReturns(p)
    \/ TogglePause
    \/ ClearErrors
    \/ ResetError

(***************************************************************************)
(* Specifications.                                                         *)
(***************************************************************************)
NoPrev == [error |-> FALSE, files |-> EmptyList, except |-> EmptyList]
Quiescent ==
    /\ status = "NONE"
    /\ pause = FALSE
    /\ selectedFiles = Undefined
    /\ fileTrees = NoTrees
    /\ checksumFiles = EmptyList
    /\ proc = [q \in Procs |-> NewProc]
    /\ lastCheck = NoCheck
    /\ lastSync = NoSync
    /\ lastTest = NoTest

\* The reconciliation alone, on every snapshot and every pair of listings.  The
\* digest of a file in the snapshot is H1; a snapshot saved from a local
\* listing has the key of the configuration directory.
InitCompare ==
    /\ Quiescent
    /\ excluded = {}
    /\ ignored \in SUBSET {<<"", 1>>}
    /\ localStore = EmptyList
    /\ remoteStore = EmptyList
    /\ budget = [events |-> 0, conc |-> 0, ctls |-> {}, auto |-> FALSE, live |-> FALSE]
    /\ \E F \in SUBSET RegPaths, ex \in FileLists(RegPaths), c \in BOOLEAN :
          /\ DOMAIN ex \subseteq F
          /\ prevData = [error |-> FALSE,
                         files |-> Spread([p \in F |-> "H1"],
                                          IF c THEN One(ConfigDirEntry, EmptyDigest) ELSE EmptyList),
                         except |-> ex]
    /\ \E r \in FileLists(RegPaths), l \in FileLists(RegPaths) :
          allFiles = [remote |-> generateRemoteHashTree(r),
                      local |-> generateLocalHashTree(l, TRUE, excluded)]

\* compareFileTrees applied to the listings
CompareStep ==
    /\ ~fileTrees.defined
    /\ fileTrees' = Defined(compareFileTrees(prevData, ignored, allFiles.remote, allFiles.local))
    /\ UNCHANGED <<status, prevData, allFiles, pause, selectedFiles, ignored, excluded, checksumFiles,
                   localStore, remoteStore, proc, budget, lastCheck, lastSync, lastTest>>

SpecCompare == InitCompare /\ [][CompareStep]_vars

(***************************************************************************)
(* src/src/checksum.ts generateLocalHashTree, step by step.  Every walk    *)
(* writes to this.remoteFiles, the one field of the Checksum object, and   *)
(* returns that field; a walk that starts replaces the field by {}.        *)
(***************************************************************************)
Walking(p, at) == proc[p].op = "walk" /\ proc[p].stk = <<Frame("walk", at)>>

\* generateLocalHashTree(exclude) is called: the field is reset and the read of
\* every file that is not excluded starts
WalkStart(p, exclude) ==
    /\ proc[p].op = "none"
    /\ checksumFiles' = EmptyList
    /\ proc' = [q \in Procs |->
                 IF q = p
                 THEN [proc[p] EXCEPT !.op = "walk", !.exclude = exclude,
                                      !.stk = <<Frame("walk", "read")>>,
                                      !.toRead = {f \in DOMAIN localStore : ~(exclude /\ f \in excluded)},
                                      !.overlap = \E o \in Procs : proc[o].op = "walk" /\ ~proc[o].returned]
                 ELSE IF proc[q].op = "walk" /\ ~proc[q].returned
                      THEN [proc[q] EXCEPT !.overlap = TRUE]
                      ELSE proc[q]]
    /\ UNCHANGED <<status, prevData, fileTrees, allFiles, pause, selectedFiles, ignored, excluded,
                   localStore, remoteStore, budget, lastCheck, lastSync, lastTest>>

\* readBinary and sha256 of file f returned: this.remoteFiles[filePath] = hash
WalkRead(p, f) ==
    /\ Walking(p, "read")
    /\ f \in proc[p].toRead
    /\ checksumFiles' = Spread(checksumFiles, One(f, localStore[f]))
    /\ proc' = [proc EXCEPT ![p].toRead = @ \ {f}]
    /\ UNCHANGED <<status, prevData, fileTrees, allFiles, pause, selectedFiles, ignored, excluded,
                   localStore, remoteStore, budget, lastCheck, lastSync, lastTest>>

\* Promise.all of the reads settled: this.remoteFiles[configDir + "/"] = "", then
\* the await of getHiddenLocalFiles
WalkHidden(p) ==
    /\ Walking(p, "read")
    /\ proc[p].toRead = {}
    /\ checksumFiles' = Spread(checksumFiles, One(ConfigDirEntry, EmptyDigest))
    /\ proc' = [proc EXCEPT ![p].stk = <<Frame("walk", "hidden")>>]
    /\ UNCHANGED <<status, prevData, fileTrees, allFiles, pause, selectedFiles, ignored, excluded,
                   localStore, remoteStore, budget, lastCheck, lastSync, lastTest>>

\* getHiddenLocalFiles returned: return this.remoteFiles
WalkReturn(p) ==
    /\ Walking(p, "hidden")
    /\ proc' = [proc EXCEPT ![p].stk = <<>>, ![p].returned = TRUE, ![p].walked = checksumFiles]
    /\ UNCHANGED <<status, prevData, fileTrees, allFiles, pause, selectedFiles, ignored, excluded,
                   localStore, remoteStore, checksumFiles, budget, lastCheck, lastSync, lastTest>>

NextWalk ==
    \/ \E p \in Procs, exclude \in BOOLEAN : WalkStart(p, exclude)
    \/ \E p \in Procs : \E f \in RegPaths : WalkRead(p, f)
    \/ \E p \in Procs : WalkHidden(p)
    \/ \E p \in Procs : WalkReturn(p)

\* Two walks over every vault of regular files, with every exclusion setting
InitWalk ==
    /\ Quiescent
    /\ allFiles = [remote |-> EmptyList, local |-> EmptyList]
    /\ prevData = [error |-> FALSE, files |-> EmptyList, except |-> EmptyList]
    /\ ignored = {}
    /\ excluded \in SUBSET RegPaths
    /\ localStore \in FileLists(RegPaths)
    /\ remoteStore = EmptyList
    /\ budget = [events |-> 0, conc |-> 0, ctls |-> {}, auto |-> FALSE, live |-> FALSE]

SpecWalk == InitWalk /\ [][NextWalk]_vars

\* The plugin after launcher ran: Status.NONE, no ChangeSets, empty listings
Launched ==
    /\ Quiescent
    /\ allFiles = [remote |-> EmptyList, local |-> EmptyList]

FreshInstall == [error |-> TRUE, files |-> EmptyList, except |-> EmptyList]

\* Overlapping invocations on a small vault
Init ==
    /\ Launched
    /\ excluded = {}
    /\ ignored = {}
    /\ budget = [events |-> MaxEvents, conc |-> MaxConcurrent,
                 ctls |-> {"fullSync"}, auto |-> TRUE, live |-> TRUE]
    /\ prevData \in {FreshInstall, NoPrev}
    /\ localStore \in {EmptyList, One(<<"", 1>>, "H1")}
    /\ remoteStore \in {EmptyList, One(<<"", 1>>, "H2")}

Spec == Init /\ [][Next]_vars

\* A call of the store or of the network that an invocation awaits returns
CallReturns(p) ==
    \/ GetStatusReturns(p)
    \/ ScanCompletes(p)
    \/ SaveScanCompletes(p)
    \/ TransferSettles(p)
    \/ LiveReadReturns(p)
    \/ LiveUploadReturns(p)

\* Overlapping invocations on a vault and a server that hold one file each, with
\* every awaited call returning or failing eventually and the continuation of
\* the invocation that awaits it run by the event loop
InitFair == Init /\ localStore # EmptyList /\ remoteStore # EmptyList
SpecFair == InitFair /\ [][Next]_vars /\ \A p \in Procs : WF_vars(CallReturns(p))

\* One invocation after the other: a snapshot of one file, with or without a
\* carried conflict, every state of that file in the vault, every server
InitSync ==
    /\ Launched
    /\ excluded = {}
    /\ ignored = {}
    /\ budget = [events |-> MaxEvents, conc |-> 1,
                 ctls |-> {"fullSync"}, auto |-> TRUE, live |-> TRUE]
    /\ \E E \in SUBSET {<<"", 1>>} :
          prevData = [error |-> FALSE, files |-> One(<<"", 1>>, "H1"),
                      except |-> Restrict(One(<<"", 1>>, "H1"), E)]
    /\ localStore \in FileLists({<<"", 1>>})
    /\ remoteStore \in FileLists(RegPaths)

SpecSync == InitSync /\ [][Next]_vars

\* The files of the configuration directory: all of them in the snapshot and on
\* the server, the first present of them in the vault
Config(present) == [p \in {<<configDir, i>> : i \in 1..present} |-> "H1"]

InitDanger ==
    /\ Launched
    /\ excluded = {}
    /\ ignored = {}
    /\ budget = [events |-> MaxEvents, conc |-> 1,
                 ctls |-> {"fullSync", "push"}, auto |-> TRUE, live |-> TRUE]
    /\ \E present \in 0..MaxProt, e \in BOOLEAN :
          /\ prevData = [error |-> e, files |-> Spread(Config(MaxProt), One(<<"", 1>>, "H1")),
                         except |-> EmptyList]
          /\ localStore = Spread(Config(present), One(<<"", 1>>, "H1"))
          /\ remoteStore = Spread(Config(MaxProt), One(<<"", 1>>, "H1"))

SpecDanger == InitDanger /\ [][Next]_vars

\* One invocation after the other, with the controllers that replicate one side
\* onto the other: every state of one file in the snapshot (absent, present,
\* present with a carried conflict), in the vault and on the server, next to a
\* second file that is either nowhere or unchanged everywhere
InitDup ==
    /\ Launched
    /\ excluded = {}
    /\ ignored = {}
    /\ budget = [events |-> MaxEvents, conc |-> 1,
                 ctls |-> {"duplicateLocal", "duplicateRemote"}, auto |-> TRUE, live |-> TRUE]
    /\ \E F \in SUBSET {<<"", 1>>}, ex \in FileLists({<<"", 1>>}), other \in FileLists({<<"", 2>>}),
          l \in FileLists({<<"", 1>>}), r \in FileLists({<<"", 1>>}) :
          /\ DOMAIN ex \subseteq F
          /\ \A f \in DOMAIN other : other[f] = "H1"
          /\ prevData = [error |-> FALSE, files |-> Spread([p \in F |-> "H1"], other), except |-> ex]
          /\ localStore = Spread(l, other)
          /\ remoteStore = Spread(r, other)

SpecDup == InitDup /\ [][Next]_vars

\* One invocation after the other, with the controllers that carry the changes
\* in one direction only: a snapshot of two files without conflicts, every
\* state of the first file in the vault and on the server, the second file
\* unchanged
InitPull ==
    /\ Launched
    /\ excluded = {}
    /\ ignored = {}
    /\ budget = [events |-> MaxEvents, conc |-> 1,
                 ctls |-> {"pull", "push", "duplicateLocal", "duplicateRemote"},
                 auto |-> TRUE, live |-> TRUE]
    /\ prevData = [error |-> FALSE, files |-> [p \in RegPaths |-> "H1"], except |-> EmptyList]
    /\ \E l \in FileLists({<<"", 1>>}), r \in FileLists({<<"", 1>>}) :
          /\ localStore = Spread(l, One(<<"", 2>>, "H1"))
          /\ remoteStore = Spread(r, One(<<"", 2>>, "H1"))

SpecPull == InitPull /\ [][Next]_vars

\* One invocation after the other with two failures of the network: a snapshot
\* of two files, a vault that kept or lost each of them, a server that kept,
\* changed or lost each of them
InitRetry ==
    /\ Launched
    /\ excluded = {}
    /\ ignored = {}
    /\ budget = [events |-> MaxEvents + 1, conc |-> 1,
                 ctls |-> {"fullSync"}, auto |-> TRUE, live |-> TRUE]
    /\ prevData = [error |-> FALSE, files |-> [p \in RegPaths |-> "H1"], except |-> EmptyList]
    /\ \E L \in SUBSET RegPaths : localStore = [p \in L |-> "H1"]
    /\ \E r \in FileLists(RegPaths) :
          /\ \A f \in DOMAIN r : r[f] \in {"H1", "H2"}
          /\ remoteStore = r

SpecRetry == InitRetry /\ [][Next]_vars

\* Overlapping invocations after a start that found no snapshot to load
InitFresh == Init /\ prevData = FreshInstall

SpecFresh == InitFresh /\ [][Next]_vars

(***************************************************************************)
(* Claims.                                                                 *)
(***************************************************************************)
AllPaths == RegPaths \cup ProtPaths \cup {ConfigDirEntry}
CategoriesOf(tree, f) == {c \in Categories : f \in DOMAIN tree[c]}
Conflicted(trees) == (DOMAIN trees.remoteFiles.except) \cup (DOMAIN trees.localFiles.except)

\* C1: an invocation of check, sync or saveState that arrives while another
\* check, sync or saveState has started and not yet returned performs no scan,
\* no transfer and no snapshot write.
C1_MutualExclusion ==
    \A p \in Procs :
        (proc[p].op \in TopLevelOps /\ proc[p].overlap) =>
            proc[p].did \cap {"scan", "transfer", "snapshot"} = {}

\* C2: a sync invoked while Status is SYNC returns without setting Status,
\* without replacing the ChangeSets or the snapshot, and without dispatching a
\* transfer.
C2_SyncWhileSyncing ==
    \A p \in Procs :
        (proc[p].op = "sync" /\ proc[p].statusAtCall = "SYNC") => proc[p].did = {}

\* C3: in every result of compareFileTrees no path is in more than one of
\* added, deleted, modified and except of the same side.
C3_Disjoint ==
    fileTrees.defined =>
        \A f \in AllPaths : /\ Cardinality(CategoriesOf(fileTrees.remoteFiles, f)) <= 1
                            /\ Cardinality(CategoriesOf(fileTrees.localFiles, f)) <= 1

\* C4: a path is in the except set of the remote side exactly when it is in
\* the except set of the local side.
C4_ConflictSymmetry ==
    fileTrees.defined =>
        DOMAIN fileTrees.remoteFiles.except = DOMAIN fileTrees.localFiles.except

\* C4, its case: a result of compareFileTrees with a conflict that was not
\* carried by the snapshot
C4_Witness ==
    /\ fileTrees.defined
    /\ \E f \in RegPaths : /\ f \notin DOMAIN prevData.except
                            /\ f \in DOMAIN fileTrees.remoteFiles.except
                            /\ f \in DOMAIN fileTrees.localFiles.except

\* The state of path f in listing l: its digest, or absent
StateOf(l, f) == IF f \in DOMAIN l THEN l[f] ELSE "absent"

\* C5: a path that both sides changed relative to the snapshot, and whose
\* states on the two sides differ, is in except on both sides and in no other
\* category of either side.
C5_BothChanged ==
    fileTrees.defined =>
        \A f \in RegPaths \ ignored :
            ( /\ StateOf(allFiles.local, f) # StateOf(prevData.files, f)
              /\ StateOf(allFiles.remote, f) # StateOf(prevData.files, f)
              /\ StateOf(allFiles.local, f) # StateOf(allFiles.remote, f) )
            => /\ CategoriesOf(fileTrees.remoteFiles, f) = {"except"}
               /\ CategoriesOf(fileTrees.localFiles, f) = {"except"}

\* C6: a sync whose controller has no directive for except attempts no
\* upload, download or delete on a path that is in except, on either side, of
\* the ChangeSets it executes.
C6_NoTransferOnConflict ==
    \A p \in Procs :
        ( /\ InFlight(p)
          /\ proc[p].trees.defined
          /\ Controllers[proc[p].ctl].local.except = 0
          /\ Controllers[proc[p].ctl].remote.except = 0 )
        => \A a \in proc[p].attempted : a[2] \notin Conflicted(proc[p].trees)

\* C7: no sync dispatches transfers from the ChangeSets of a check whose
\* dangerCheck tripped (and whose error flag nobody cleared since).
C7_NoSyncAfterTrip == \A p \in Procs : ~proc[p].tripped

C9_ErrorFlagBlocks ==
    \A p \in Procs :
        (proc[p].op \in TopLevelOps /\ proc[p].errHeld) =>
            proc[p].did \cap {"scan", "trees", "transfer", "snapshot"} = {}

\* C10: after a sync that nothing else interleaved with, every path whose
\* transfer failed terminally is, in the ChangeSets of the check that follows,
\* on the same side and in the same category as in the ChangeSets the sync
\* executed.
C10_FailedStaysPending ==
    (lastSync.done /\ lastSync.quiet) =>
        \A t \in lastSync.failed : t[3] \in DOMAIN TreeOf(lastSync.after, t[1])[t[2]]

\* C11: every sync that set Status.SYNC has Status.NONE when it returns.
C11_SyncEndsIdle ==
    \A p \in Procs :
        (proc[p].op = "sync" /\ proc[p].returned /\ "syncing" \in proc[p].did) =>
            proc[p].endStatus = "NONE"

\* C12: a check that failed because the server could not be reached, at its
\* test or at the fetch of the remote checksums, ends with Status.OFFLINE and
\* leaves the error flag as it was.
C12_ConnectivityFailure ==
    lastCheck.fail \in {"test", "fetch"} =>
        /\ lastCheck.failStatus = "OFFLINE"
        /\ lastCheck.failError = lastCheck.failErrorBefore

\* C13: a test whose getStatus answered online ends with Status.NONE when the
\* error flag is not set and with Status.ERROR when it is set; a test whose
\* getStatus answered offline, or could not reach the server, ends with
\* Status.OFFLINE and leaves the error flag as it was.
C13_TestOutcome ==
    lastTest.done =>
        /\ (lastTest.online /\ ~lastTest.errorBefore) => lastTest.status = "NONE"
        /\ (lastTest.online /\ lastTest.errorBefore) => lastTest.status = "ERROR"
        /\ ~lastTest.online => (lastTest.status = "OFFLINE" /\ lastTest.error = lastTest.errorBefore)

\* C13, its case: the server answered online while the error flag was set
C13_Witness ==
    /\ lastTest.done
    /\ lastTest.online
    /\ lastTest.errorBefore
    /\ lastTest.status = "ERROR"

\* C14: an invocation of check, sync or saveState made while the manual pause
\* is active, and not lifted since, starts no scan, no transfer and no snapshot
\* write.
C14_PauseBlocks ==
    \A p \in Procs :
        (proc[p].op \in TopLevelOps /\ proc[p].pauseHeld) =>
            proc[p].did \cap {"scan", "transfer", "snapshot"} = {}

\* The directive table: the transfer of a side and category of added, deleted
\* and modified under directive d
TableOf(side, cat, d) ==
    CASE side = "remote" /\ cat = "added" -> IF d = 1 THEN "download" ELSE "deleteRemote"
      [] side = "remote" /\ cat = "deleted" -> IF d = 1 THEN "deleteLocal" ELSE "upload"
      [] side = "remote" /\ cat = "modified" -> IF d = 1 THEN "download" ELSE "upload"
      [] side = "local" /\ cat = "added" -> IF d = 1 THEN "upload" ELSE "deleteLocal"
      [] side = "local" /\ cat = "deleted" -> IF d = 1 THEN "deleteRemote" ELSE "download"
      [] side = "local" /\ cat = "modified" -> IF d = 1 THEN "upload" ELSE "download"

\* C15: the operations a sync starts are, for every side and every category
\* of added, deleted and modified that has a directive and paths, the transfer
\* of the directive table on exactly those paths, and nothing for a category
\* without a directive.
C15_DirectiveTable ==
    \A p \in Procs :
        (InFlight(p) /\ proc[p].trees.defined) =>
            LET c == Controllers[proc[p].ctl]
                paths(src) == DOMAIN TreeOf(proc[p].trees, src[1])[src[2]]
            IN  /\ {t \in proc[p].dispatched : t[1][2] # "except"} =
                       {<<src, TableOf(src[1], src[2], c[src[1]][src[2]]), paths(src)>> :
                           src \in {x \in Sources : /\ x[2] # "except"
                                                     /\ c[x[1]][x[2]] # 0
                                                     /\ paths(x) # {}}}
                /\ \A t \in proc[p].dispatched : c[t[1][1]][t[1][2]] # 0

\* C15, its case: a sync under a controller with directives -1 and +1 started
\* a deletion on the server for remote.added and an upload for local.added
C15_Witness ==
    \E p \in Procs :
        /\ InFlight(p)
        /\ proc[p].ctl = "duplicateLocal"
        /\ \E t \in proc[p].dispatched : t[1] = <<"remote", "added">> /\ t[2] = "deleteRemote"
        /\ \E t \in proc[p].dispatched : t[1] = <<"local", "added">> /\ t[2] = "upload"

\* C16: when the transfers of a duplicateLocal have all settled and every
\* attempt succeeded, the server holds the files of the vault: the same paths
\* with the same digests.
C16_DuplicateLocal ==
    (lastSync.settled /\ lastSync.ctl = "duplicateLocal" /\ lastSync.clean) =>
        lastSync.remote = lastSync.local

C18_RemoteDeleted ==
    (fileTrees.defined /\ DOMAIN prevData.files # {}) =>
        \A f \in AllPaths \ ignored :
            ( /\ f \in DOMAIN prevData.files
              /\ f \in DOMAIN allFiles.local
              /\ f \notin DOMAIN allFiles.remote )
            => f \in DOMAIN fileTrees.remoteFiles.deleted

\* The listing and the result of compareFileTrees of one side
ListingOf(side) == IF side = "remote" THEN allFiles.remote ELSE allFiles.local
OtherSide(side) == IF side = "remote" THEN "local" ELSE "remote"

\* Path f is on both sides and in the snapshot, its digest differs from the
\* snapshot on side and equals the snapshot on the other side
ChangedOnlyOn(side, f) ==
    /\ f \in DOMAIN prevData.files
    /\ f \in DOMAIN allFiles.remote
    /\ f \in DOMAIN allFiles.local
    /\ ListingOf(side)[f] # prevData.files[f]
    /\ ListingOf(OtherSide(side))[f] = prevData.files[f]

ExpectedFirstSync(f) ==
    IF f \in DOMAIN allFiles.remote /\ f \in DOMAIN allFiles.local
    THEN IF allFiles.remote[f] # allFiles.local[f]
         THEN [remote |-> {"except"}, local |-> {"except"}]
         ELSE [remote |-> {}, local |-> {}]
    ELSE [remote |-> IF f \in DOMAIN allFiles.remote THEN {"added"} ELSE {},
          local |-> IF f \in DOMAIN allFiles.local THEN {"added"} ELSE {}]

\* C20: with an empty snapshot and two listings that are not empty, a path on
\* both sides with different digests is in except on both sides and in no
\* other category, a path on both sides with equal digests is in no category,
\* and a path on one side only is in added of that side and in nothing else.
C20_FirstSync ==
    ( /\ fileTrees.defined
      /\ DOMAIN prevData.files = {}
      /\ DOMAIN allFiles.remote # {}
      /\ DOMAIN allFiles.local # {} ) =>
        \A f \in AllPaths :
            /\ CategoriesOf(fileTrees.remoteFiles, f) = ExpectedFirstSync(f).remote
            /\ CategoriesOf(fileTrees.localFiles, f) = ExpectedFirstSync(f).local

\* C20, its case: a result of compareFileTrees without a snapshot, with a path
\* of different digests on the two sides, a path of equal digests, and a path
\* on the local side only
C20_Witness ==
    /\ fileTrees.defined
    /\ DOMAIN prevData.files = {}
    /\ \E f \in RegPaths, g \in RegPaths :
          /\ f \in DOMAIN allFiles.remote /\ f \in DOMAIN allFiles.local
          /\ allFiles.remote[f] # allFiles.local[f]
          /\ f \in DOMAIN fileTrees.remoteFiles.except
          /\ g \in DOMAIN allFiles.remote /\ g \in DOMAIN allFiles.local
          /\ allFiles.remote[g] = allFiles.local[g]
    /\ ConfigDirEntry \in DOMAIN fileTrees.localFiles.added

\* Path p is in the snapshot, not in the local listing, and in the remote
\* listing with the digest of the snapshot
DeletedLocally(p) ==
    /\ p \in DOMAIN prevData.files
    /\ p \notin DOMAIN allFiles.local
    /\ p \in DOMAIN allFiles.remote
    /\ allFiles.remote[p] = prevData.files[p]

\* C21 as stated: given a snapshot with path p of digest H, a local listing
\* without p and a remote listing with p of digest H, compareFileTrees returns
\* p with digest H in deleted of the remote side.
C21_RemoteSideDeleted ==
    fileTrees.defined =>
        \A p \in RegPaths \ ignored :
            DeletedLocally(p) =>
                /\ p \in DOMAIN fileTrees.remoteFiles.deleted
                /\ fileTrees.remoteFiles.deleted[p] = prevData.files[p]

\* C21 amended: in that case compareFileTrees returns p with digest H in
\* deleted of the local side, and p is not in deleted of the remote side.
C21_LocalSideDeleted ==
    fileTrees.defined =>
        \A p \in RegPaths \ ignored :
            DeletedLocally(p) =>
                /\ p \in DOMAIN fileTrees.localFiles.deleted
                /\ fileTrees.localFiles.deleted[p] = prevData.files[p]
                /\ p \notin DOMAIN fileTrees.remoteFiles.deleted

\* C21, its case: a result of compareFileTrees for a path deleted locally and
\* unchanged on the remote side
C21_Witness ==
    /\ fileTrees.defined
    /\ \E p \in RegPaths \ ignored :
          DeletedLocally(p) /\ p \in DOMAIN fileTrees.localFiles.deleted

\* The batches of downloadFiles and deleteFilesRemote that a sync started and
\* that have completed
CompletedRetried(me) ==
    {d \in me.dispatched : Retried(d[2]) /\ \A b \in me.tasks : b.src # d[1]}

Selected(me) ==
    {sf \in Sources \X AllPaths :
        /\ Controllers[me.ctl][sf[1][1]][sf[1][2]] # 0
        /\ sf[2] \in DOMAIN TreeOf(me.trees, sf[1][1])[sf[1][2]]}

\* C23: in a sync every path of every category the controller selects gets at
\* least one transfer attempt, whatever the outcome of the other transfers, and
\* the sync goes on to the snapshot save once all of them have settled.
C23_AllAttempted ==
    \A p \in Procs :
        (InFlight(p) /\ proc[p].op = "sync" /\ "transfer" \in proc[p].did /\ proc[p].tasks = {}) =>
            /\ \A sf \in Selected(proc[p]) :
                  \E ok \in BOOLEAN : <<sf[1], sf[2], 1, ok>> \in proc[p].rounds
            /\ ~Suspended(p, "sync", "transfer")
            /\ lastSync.settled

\* C23, its case: a sync with two categories selected has settled all its
\* transfers, one of which failed for good
C23_Witness ==
    \E p \in Procs :
        /\ InFlight(p) /\ proc[p].op = "sync" /\ "transfer" \in proc[p].did /\ proc[p].tasks = {}
        /\ Cardinality({sf[1] : sf \in Selected(proc[p])}) >= 2
        /\ proc[p].failed # {}

\* C24: when a check pass fails (the server is not reachable, an exception, or
\* the danger guard trips), the cached ChangeSets and the files and except
\* lists of the snapshot are after the check what they were before it.
C24_FailedCheckFrame ==
    lastCheck.fail # "none" => lastCheck.failPost = lastCheck.failPre

\* C25: a saveState that starts in Idle without the error flag, and whose write
\* of the snapshot file does not fail, ends with the files of the snapshot
\* equal to the current local FileList (no path is marked unselected), with the
\* except list of the snapshot equal to the conflicts of the local side that
\* are paths of the new snapshot, with Status Idle and without the error flag.
C25_SaveCommits ==
    \A p \in Procs :
        (proc[p].saved.ran /\ proc[p].saved.writeOk) =>
            /\ proc[p].saved.files = proc[p].saved.listing
            /\ proc[p].saved.except = checkExistKey(proc[p].saved.localExcept, proc[p].saved.listing)
            /\ proc[p].saved.status = "NONE"
            /\ ~proc[p].saved.error

\* C26: a FileList built by generateLocalHashTree holds real files only: no key
\* is a directory (a path that ends with a slash) and no entry has the empty
\* digest.
C26_OnlyRealFiles ==
    \A f \in DOMAIN allFiles.local :
        ~EndsWithSlash(f) /\ allFiles.local[f] # EmptyDigest

\* C27: the cached ChangeSets change only in a step taken while Status is
\* CHECK, and the files and except lists of the snapshot change only in a step
\* taken while Status is SAVE.
C27_MatchingStatus ==
    [][ /\ fileTrees' # fileTrees => status = "CHECK"
        /\ (prevData'.files # prevData.files \/ prevData'.except # prevData.except)
              => status = "SAVE" ]_vars

\* C28: the files of the snapshot change only in the step that ends a
\* saveState, which replaces them by the local FileList it built; no other
\* step, of live sync or of anything else, changes an entry of the snapshot.
C28_WholesaleOnly ==
    [][ prevData'.files # prevData.files =>
            \E p \in Procs : /\ ~proc[p].saved.ran
                             /\ proc'[p].saved.ran
                             /\ prevData'.files = proc'[p].saved.listing ]_vars

\* C29: live sync does not overwrite a version of the server that changed
\* since the snapshot: while the file of a live sync is on the server with a
\* digest that is not the digest of the snapshot, no step of that live sync
\* changes the file on the server.
C29_LiveSyncKeepsRemote ==
    [][ \A p \in Procs :
            ( /\ InFlight(p) /\ proc[p].op = "live"
              /\ proc[p].file \in DOMAIN remoteStore
              /\ StateOf(prevData.files, proc[p].file) # remoteStore[proc[p].file] )
            => StateOf(remoteStore', proc[p].file) = remoteStore[proc[p].file] ]_vars

\* C30: with a snapshot, a path is in deleted of a side only if it is in the
\* snapshot, not in the listing of that side and in the listing of the other
\* side; a path that is gone from both listings is in deleted of neither side.
C30_DeletedCrossChecked ==
    (fileTrees.defined /\ DOMAIN prevData.files # {}) =>
        \A side \in {"remote", "local"} : \A f \in AllPaths :
            f \in DOMAIN TreeOf(fileTrees, side).deleted =>
                /\ f \in DOMAIN prevData.files
                /\ f \notin DOMAIN ListingOf(side)
                /\ f \in DOMAIN ListingOf(OtherSide(side))

\* C30, its case: a result of compareFileTrees with a path of the snapshot
\* deleted on the local side only, and a path of the snapshot gone from both sides
C30_Witness ==
    /\ fileTrees.defined
    /\ \E f \in RegPaths, g \in RegPaths :
          /\ f \in DOMAIN fileTrees.localFiles.deleted
          /\ g \in DOMAIN prevData.files
          /\ g \notin DOMAIN allFiles.remote
          /\ g \notin DOMAIN allFiles.local

\* C31: a path that is in except of the snapshot is in except of neither side
\* of the next result of compareFileTrees when it is gone from the listing of
\* one side, or when both listings hold it with equal digests.
C31_CarriedConflictDropped ==
    fileTrees.defined =>
        \A f \in DOMAIN prevData.except :
            ( \/ f \notin DOMAIN allFiles.remote
              \/ f \notin DOMAIN allFiles.local
              \/ allFiles.remote[f] = allFiles.local[f] )
            => /\ f \notin DOMAIN fileTrees.remoteFiles.except
               /\ f \notin DOMAIN fileTrees.localFiles.except

\* An invocation of the check command that is past the status guard of check
PastGuard(p) ==
    /\ InFlight(p) /\ proc[p].op = "check"
    /\ \E i \in 1..Len(proc[p].stk) : proc[p].stk[i].fn = "check"

AfterTransfers(p) ==
    \E i \in 1..Len(proc[p].stk) :
        proc[p].stk[i].fn = "sync" /\ proc[p].stk[i].at \in {"save", "postcheck"}

\* C33: in a sync that dispatches transfers the snapshot is saved only after
\* every dispatched transfer has settled, retries included, and a check runs
\* after that save and before the invocation completes: while the sync is at
\* its saveState or later no transfer is pending, and a sync that dispatched
\* and completed has saved the local FileList as the files of the snapshot and
\* has run its second check.
C33_SaveAfterTransfers ==
    \A p \in Procs :
        /\ AfterTransfers(p) => proc[p].tasks = {}
        /\ (proc[p].returned /\ "transfer" \in proc[p].did) =>
              /\ proc[p].saved.ran
              /\ proc[p].saved.files = proc[p].saved.listing
              /\ "postcheck" \in proc[p].did

\* C34: deleteFilesRemote treats the responses 200, 201, 204 and 404 of the
\* remote delete as success: a path whose first attempt got one of them
\* succeeded and is not attempted in the retry round; with any other response
\* the first attempt of the path failed.
C34_DeleteResponses ==
    \A p \in Procs : \A e \in proc[p].replies :
        e[3] = 1 =>
            IF e[4] \in {200, 201, 204, 404}
            THEN /\ <<e[1], e[2], 1, TRUE>> \in proc[p].rounds
                 /\ \A ok \in BOOLEAN : <<e[1], e[2], 2, ok>> \notin proc[p].rounds
            ELSE <<e[1], e[2], 1, FALSE>> \in proc[p].rounds

\* The sides and categories the controller of the last sync has no directive for
Undirected == {src \in Sources : Controllers[lastSync.ctl][src[1]][src[2]] = 0}

\* C35: a change in a side and category for which the controller has no
\* directive is not lost by the sync: the check that follows the transfers
\* classifies its path on the same side and in the same category as the check
\* before them.
C35_UndirectedKept ==
    (lastSync.done /\ lastSync.quiet) =>
        \A src \in Undirected :
            \A f \in DOMAIN TreeOf(lastSync.before, src[1])[src[2]] :
                f \in DOMAIN TreeOf(lastSync.after, src[1])[src[2]]

Busy == {"TEST", "CHECK", "SYNC", "SAVE"}

\* C36: when every call of the store and of the network returns or fails
\* eventually, every invocation that has started returns, and whenever no
\* invocation is in flight Status is none of TEST, CHECK, SYNC and SAVE, under
\* every interleaving of the invocations.
C36_Terminates ==
    /\ \A p \in Procs : InFlight(p) ~> proc[p].returned
    /\ []((\A p \in Procs : ~InFlight(p)) => status \notin Busy)

\* C36, its case: two invocations that overlapped have both returned
C36_Witness ==
    /\ \A p \in Procs : proc[p].returned /\ proc[p].op \in TopLevelOps \cup {"test"}
    /\ \E p \in Procs : proc[p].overlap /\ "status" \in proc[p].did

\* C37: the FileList a call of generateLocalHashTree returns holds exactly the
\* local files that the exclude argument of that call admits (and the key of
\* the configuration directory), also when a second call overlaps it.
C37_WalkExact ==
    \A p \in Procs :
        (proc[p].op = "walk" /\ proc[p].returned) =>
            proc[p].walked = generateLocalHashTree(localStore, proc[p].exclude, excluded)

\* The sync invocation p runs with one of the controllers ctls
Running(p, ctls) == proc[p].op = "sync" /\ InFlight(p) /\ proc[p].ctl \in ctls

\* C38: push and duplicateLocal never write, overwrite or delete a local file,
\* and pull and duplicateRemote never upload to or delete from the remote
\* store: no step taken while such a sync is in flight changes that store.
C38_OneWay ==
    [][ \A p \in Procs :
            /\ Running(p, {"push", "duplicateLocal"}) => localStore' = localStore
            /\ Running(p, {"pull", "duplicateRemote"}) => remoteStore' = remoteStore ]_vars

\* C38, its case: a pull has downloaded a file that was modified remotely, and
\* the transfers of a push or a duplicateLocal that followed it are under way
C38_Witness ==
    /\ lastSync.settled /\ lastSync.ctl = "pull" /\ lastSync.clean
    /\ DOMAIN lastSync.before.remoteFiles.modified # {}
    /\ \E p \in Procs : Running(p, {"push", "duplicateLocal"}) /\ proc[p].tasks # {}

\* C39: a download attempt that fails, in the first round or in the retry,
\* leaves the vault as it was and creates no file; an attempt on a file that
\* succeeds changes the vault only at that file, to the content the server
\* holds for it at that moment.
DownloadSettles(p, b, f, ok) ==
    /\ b \in proc[p].tasks
    /\ b.kind = "download"
    /\ <<b.src, f, b.round, ok>> \in proc'[p].rounds \ proc[p].rounds
C39_DownloadGuarded ==
    [][\A p \in Procs : \A b \in proc[p].tasks : \A f \in b.todo : \A ok \in BOOLEAN :
          DownloadSettles(p, b, f, ok) =>
              IF ok /\ ~EndsWithSlash(f)
              THEN /\ f \in DOMAIN remoteStore
                   /\ localStore' = Spread(localStore, [g \in {f} |-> remoteStore[f]])
              ELSE localStore' = localStore]_vars
\* A download failed in the first round and in the retry where the server
\* holds the file and the vault does not
C39_Witness ==
    \E p \in Procs : \E e \in proc[p].rounds :
        /\ <<"download", e[2]>> \in proc[p].attempted
        /\ <<e[1], e[2], 1, FALSE>> \in proc[p].rounds
        /\ <<e[1], e[2], 2, FALSE>> \in proc[p].rounds
        /\ e[2] \in DOMAIN remoteStore
        /\ e[2] \notin DOMAIN localStore

\* C40: a start that found no snapshot begins with an empty snapshot and the
\* error flag set; the flag falls only when somebody clears it; and until then
\* every invocation of sync and of saveState made under the flag has returned
\* at once without a scan, a transfer or a write of the snapshot, and no sync
\* made on behalf of the timer under the flag has transferred or saved anything.
RejectedUnderFlag(p) ==
    /\ proc[p].op \in {"sync", "save"} =>
          proc[p].returned /\ proc[p].did = {} /\ ~proc[p].saved.ran
    /\ proc[p].did \cap {"syncing", "transfer", "snapshot"} = {}
    /\ proc[p].attempted = {}
    /\ proc[p].dispatched = {}
C40_FreshStartBlocks ==
    /\ prevData.error /\ prevData.files = EmptyList /\ prevData.except = EmptyList
    /\ [][(prevData.error /\ ~prevData'.error) =>
              (lastCheck'.cleared /\ \A p \in Procs : ~proc'[p].errHeld)]_vars
    /\ [](\A p \in Procs :
             (proc[p].op \in {"sync", "save", "auto"} /\ proc[p].errHeld) => RejectedUnderFlag(p))
\* A sync and a saveState were rejected under the flag of a fresh start while
\* the vault and the server hold files
C40_Witness ==
    /\ prevData.error
    /\ localStore # EmptyList
    /\ remoteStore # EmptyList
    /\ \E p, q \in Procs : /\ proc[p].op = "sync" /\ proc[p].returned /\ proc[p].errHeld
                           /\ proc[q].op = "save" /\ proc[q].returned /\ proc[q].errHeld

====
